---- MODULE Spec2Model ----
(***************************************************************************)
(* Model of apps/api/app.py: the FastAPI service whose metrics_middleware  *)
(* times every request, counts its outcome in REQUESTS and observes its    *)
(* latency in LATENCY, and whose /metrics handler renders the registry.    *)
(*                                                                         *)
(* A URL path is a sequence of segments: "/echo" is <<"echo">> and         *)
(* "/echo/1" is <<"echo", "1">>.  A JSON object is a set of <<key, value>> *)
(* pairs.  An optional value (None, an unbound local) is the empty set,    *)
(* a present one a singleton.                                              *)
(*                                                                         *)
(* The event loop runs the middleware; the `def` handlers run in worker    *)
(* threads.  loop names the request whose middleware slice after           *)
(* `await call_next` (lines 163-182, no await inside) is running, 0 when   *)
(* the loop is free, so that two requests never interleave inside their    *)
(* finally blocks while a handler thread may run between any two steps.    *)
(***************************************************************************)
EXTENDS Integers, Sequences, FiniteSets, TLC

\* Bounds of the model.
MaxRequests == 2        \* concurrent requests of Spec and SpecFault
MaxSeqRequests == 7     \* requests served one after another in SpecSeq

Reqs == 1..MaxRequests

VARIABLES
    METRICS_ENABLED,  \* settings.METRICS_ENABLED
    pc,               \* per request: position in metrics_middleware
    request,          \* per request: the Request (scope) or {} before arrival
    route_label,      \* per request: local route_label
    method,           \* per request: local method
    response,         \* per request: local response, {} while unbound
    code,             \* per request: local code, {} while unbound
    pending,          \* per request: what `await call_next` will deliver
    delivered,        \* per request: what the caller of the middleware got
    REQUESTS,         \* Counter http_requests_total: label triple -> value
    LATENCY,          \* Histogram http_request_latency_seconds: pair -> count
    loop,             \* request whose post-await slice holds the event loop
    nObs,             \* per request: observations it added to LATENCY
    nInc,             \* per request: increments it added to REQUESTS
    obsKeys,          \* per request: the LATENCY series it changed
    incKeys,          \* per request: the REQUESTS series it changed
    exc,              \* per request: the exception propagating, {} if none
    served            \* SpecSeq: per path, the requests already completed on
                      \* the connection

vars == <<METRICS_ENABLED, pc, request, route_label, method, response, code,
          pending, delivered, REQUESTS, LATENCY, loop, nObs, nInc, obsKeys,
          incKeys, exc, served>>

----------------------------------------------------------------------------
\* Settings (lines 29-42)
APP_NAME == "secure-api"
APP_VERSION == "1.0.0"

HTTP_500_INTERNAL_SERVER_ERROR == 500

\* str(code) for the status codes the service produces (line 179)
str(c) ==
    CASE c = 200 -> "200"
      [] c = 404 -> "404"
      [] c = 405 -> "405"
      [] c = 422 -> "422"
      [] c = 500 -> "500"

\* The routes declared by the decorators, in declaration order
\* (lines 108, 117, 130, 136, 188).
Routes ==
    << [path |-> <<"live">>,    methods |-> {"GET"},  endpoint |-> "live"],
       [path |-> <<"ready">>,   methods |-> {"GET"},  endpoint |-> "ready"],
       [path |-> <<"health">>,  methods |-> {"GET"},  endpoint |-> "health"],
       [path |-> <<"echo">>,    methods |-> {"POST"}, endpoint |-> "echo"],
       [path |-> <<"metrics">>, methods |-> {"GET"},  endpoint |-> "metrics"] >>

DeclaredTemplates == { Routes[i].path : i \in DOMAIN Routes }

\* PathMatches, had the template been a path parameter such as /{name},
\* which matches every path of one segment.
PathMatchesParameter(template, path) == Len(path) = Len(template)

\* A declared path template has no parameter: it matches exactly its own path.
PathMatches(template, path) == path = template

\* The route the router selects for a path: the first one whose template
\* matches, {} when none does.
MatchedRoute(path) ==
    LET hits == { i \in DOMAIN Routes : PathMatches(Routes[i].path, path) }
    IN  IF hits = {} THEN {}
        ELSE { Routes[CHOOSE i \in hits : \A j \in hits : i <= j] }

----------------------------------------------------------------------------
\* Responses

JSONResponse(content, status_code) ==
    [status |-> status_code, media |-> "application/json",
     json |-> content, counters |-> {}, histograms |-> {}]

\* generate_latest, had it been given a registry of its own instead of the
\* default one REQUESTS and LATENCY register with.
generate_latest_fresh_registry(requests, latency) ==
    [counters |-> {}, histograms |-> {}]

\* generate_latest(): one sample per existing series.
generate_latest(requests, latency) ==
    [counters   |-> { <<k, requests[k]>> : k \in DOMAIN requests },
     histograms |-> { <<k, latency[k]>> : k \in DOMAIN latency }]

TextResponse(snapshot) ==
    [status |-> 200, media |-> "text/plain",
     json |-> {}, counters |-> snapshot.counters,
     histograms |-> snapshot.histograms]

\* The value a parsed exposition body reports for a series, 0 when the
\* series has no sample.
SampleValue(samples, key) ==
    IF \E s \in samples : s[1] = key
    THEN (CHOOSE s \in samples : s[1] = key)[2]
    ELSE 0

live == JSONResponse({<<"status", "alive">>, <<"app", APP_NAME>>,
                      <<"version", APP_VERSION>>}, 200)
ready == JSONResponse({<<"status", "ready">>}, 200)
health == JSONResponse({<<"status", "ok">>}, 200)

\* echo(payload): the body is validated against Echo first (lines 100-102).
echo(body) ==
    IF body.valid
    THEN JSONResponse({<<"echo", body.message>>}, 200)
    ELSE JSONResponse({<<"detail", "validation error">>}, 422)

\* metrics, without the METRICS_ENABLED gate of lines 195-196.
metrics_ungated(enabled, requests, latency) ==
    TextResponse(generate_latest(requests, latency))

metrics(enabled, requests, latency) ==
    IF ~enabled
    THEN JSONResponse({<<"detail", "metrics disabled">>}, 404)
    ELSE TextResponse(generate_latest(requests, latency))

\* What the routed application answers when the handler does not raise.
Handle(rq, enabled, requests, latency) ==
    LET m == MatchedRoute(rq.path)
    IN  IF m = {} THEN JSONResponse({<<"detail", "Not Found">>}, 404)
        ELSE LET route == CHOOSE x \in m : TRUE
             IN  IF rq.method \notin route.methods
                 THEN JSONResponse({<<"detail", "Method Not Allowed">>}, 405)
                 ELSE CASE route.endpoint = "live" -> live
                        [] route.endpoint = "ready" -> ready
                        [] route.endpoint = "health" -> health
                        [] route.endpoint = "echo" -> echo(rq.body)
                        [] route.endpoint = "metrics" ->
                               metrics(enabled, requests, latency)

----------------------------------------------------------------------------
\* Metrics

\* route_label_from_request, had the except branch returned one fixed
\* label instead of the raw path.
route_label_fixed_fallback(rq) ==
    IF rq.route # {}
    THEN (CHOOSE x \in rq.route : TRUE).path
    ELSE <<"unmatched">>

\* route_label_from_request: the template of scope["route"] when the scope
\* has one; None.path raises and the except branch returns the raw path.
route_label_from_request(rq) ==
    IF rq.route # {}
    THEN (CHOOSE x \in rq.route : TRUE).path
    ELSE rq.path

\* labels, had every call built a new child instead of returning the one
\* the family already holds for the label values.
labels_always_new(metric, key) ==
    IF key \in DOMAIN metric THEN [metric EXCEPT ![key] = 0]
    ELSE metric @@ (key :> 0)

\* metric.labels(...): the child series, created at 0 on first use.
labels(metric, key) ==
    IF key \in DOMAIN metric THEN metric ELSE metric @@ (key :> 0)

\* inc, had the child's value been stored instead of added to.
inc_overwrite(metric, key) == [labels(metric, key) EXCEPT ![key] = 1]

\* inc, had the family kept only the child it used last.
inc_single_child(metric, key) ==
    key :> ((IF key \in DOMAIN metric THEN metric[key] ELSE 0) + 1)

\* REQUESTS.labels(key).inc()
inc(metric, key) == [labels(metric, key) EXCEPT ![key] = @ + 1]

\* observe, had a series stopped counting after its first observation.
observe_saturating(metric, key) == [labels(metric, key) EXCEPT ![key] = 1]

\* LATENCY.labels(key).observe(duration): only the series' count is kept.
observe(metric, key) == [labels(metric, key) EXCEPT ![key] = @ + 1]

RECURSIVE SumOver(_, _)
SumOver(f, keys) ==
    IF keys = {} THEN 0
    ELSE LET k == CHOOSE x \in keys : TRUE
         IN  f[k] + SumOver(f, keys \ {k})

\* The sum of all series of a metric family.
SeriesTotal(metric) == SumOver(metric, DOMAIN metric)

\* The series whose value differs between two states of a metric family.
Changed(before, after) ==
    { k \in DOMAIN after : k \notin DOMAIN before \/ after[k] # before[k] }

----------------------------------------------------------------------------
\* Requests the clients send.

NoBody == [valid |-> TRUE, message |-> ""]

Get(p) == [path |-> p, method |-> "GET", body |-> NoBody, route |-> {}]

Inputs ==
    { Get(p) : p \in DeclaredTemplates \cup {<<"nonexistent">>} }
    \cup
    { [path |-> <<"echo">>, method |-> "POST", body |-> b, route |-> {}] :
          b \in { [valid |-> TRUE, message |-> "hi"],
                  [valid |-> TRUE, message |-> "/metrics"],
                  [valid |-> FALSE, message |-> ""] } }

SeqInputs ==
    { Get(p) : p \in DeclaredTemplates \cup {<<"nonexistent">>, <<"echo", "1">>} }

FaultInputs ==
    { i \in Inputs :
          \/ i.path = <<"health">>
          \/ i.path = <<"nonexistent">>
          \/ i.method = "POST" /\ i.body.valid /\ i.body.message = "hi" }

\* The state once the module is loaded with METRICS_ENABLED set to enabled.
InitWith(enabled) ==
    /\ METRICS_ENABLED = enabled
    /\ pc = [r \in Reqs |-> "NEW"]
    /\ request = [r \in Reqs |-> {}]
    /\ route_label = [r \in Reqs |-> {}]
    /\ method = [r \in Reqs |-> {}]
    /\ response = [r \in Reqs |-> {}]
    /\ code = [r \in Reqs |-> {}]
    /\ pending = [r \in Reqs |-> {}]
    /\ delivered = [r \in Reqs |-> {}]
    /\ REQUESTS = << >>
    /\ LATENCY = << >>
    /\ loop = 0
    /\ nObs = [r \in Reqs |-> 0]
    /\ nInc = [r \in Reqs |-> 0]
    /\ obsKeys = [r \in Reqs |-> {}]
    /\ incKeys = [r \in Reqs |-> {}]
    /\ exc = [r \in Reqs |-> {}]
    /\ served = << >>

\* METRICS_ENABLED keeps its default (line 35).
Init == InitWith(TRUE)

\* The environment sets METRICS_ENABLED to false.
InitDisabled == InitWith(FALSE)

InitAny == \E enabled \in BOOLEAN : InitWith(enabled)

Rq(r) == CHOOSE x \in request[r] : TRUE

\* Lines 157-159: the middleware receives the request, takes the start
\* time and resolves route_label and method.
Receive(r, input) ==
    /\ pc[r] = "NEW"
    /\ loop = 0
    /\ request' = [request EXCEPT ![r] = {input}]
    /\ route_label' = [route_label EXCEPT ![r] = {route_label_from_request(input)}]
    /\ method' = [method EXCEPT ![r] = {input.method}]
    /\ pc' = [pc EXCEPT ![r] = "START"]
    /\ UNCHANGED <<METRICS_ENABLED, response, code, pending, delivered,
                   REQUESTS, LATENCY, loop, nObs, nInc, obsKeys, incKeys,
                   exc, served>>

Start(r) ==
    /\ IF r = 1 THEN TRUE ELSE pc[r - 1] # "NEW"
    /\ \E input \in Inputs : Receive(r, input)

\* Line 162: call_next(request) is awaited; the loop is released.
Dispatch(r) ==
    /\ pc[r] = "START"
    /\ loop = 0
    /\ pc' = [pc EXCEPT ![r] = "DISPATCHED"]
    /\ UNCHANGED <<METRICS_ENABLED, request, route_label, method, response,
                   code, pending, delivered, REQUESTS, LATENCY, loop, nObs,
                   nInc, obsKeys, incKeys, exc, served>>

\* The router stores the matched route in the scope the middleware shares.
Routed(rq) == [rq EXCEPT !.route = MatchedRoute(rq.path)]

\* HandlerReturn, had the /metrics handler cleared the values it rendered
\* (a scrape that collects and resets).
HandlerReturnResetting(r) ==
    /\ pc[r] = "DISPATCHED"
    /\ pending[r] = {}
    /\ request' = [request EXCEPT ![r] = {Routed(Rq(r))}]
    /\ pending' = [pending EXCEPT ![r] =
           {[kind |-> "returned",
             result |-> {Handle(Rq(r), METRICS_ENABLED, REQUESTS, LATENCY)}]}]
    /\ REQUESTS' = IF Rq(r).path = <<"metrics">>
                   THEN [k \in DOMAIN REQUESTS |-> 0] ELSE REQUESTS
    /\ UNCHANGED <<METRICS_ENABLED, pc, route_label, method, response, code,
                   delivered, LATENCY, loop, nObs, nInc, obsKeys,
                   incKeys, exc, served>>

\* The routed application (worker thread for the `def` handlers) finishes
\* with a response; /metrics reads the registry at this moment.
HandlerReturn(r) ==
    /\ pc[r] = "DISPATCHED"
    /\ pending[r] = {}
    /\ request' = [request EXCEPT ![r] = {Routed(Rq(r))}]
    /\ pending' = [pending EXCEPT ![r] =
           {[kind |-> "returned",
             result |-> {Handle(Rq(r), METRICS_ENABLED, REQUESTS, LATENCY)}]}]
    /\ UNCHANGED <<METRICS_ENABLED, pc, route_label, method, response, code,
                   delivered, REQUESTS, LATENCY, loop, nObs, nInc, obsKeys,
                   incKeys, exc, served>>

\* The routed application raises an exception that nothing below handles.
HandlerRaise(r) ==
    /\ pc[r] = "DISPATCHED"
    /\ pending[r] = {}
    /\ request' = [request EXCEPT ![r] = {Routed(Rq(r))}]
    /\ pending' = [pending EXCEPT ![r] = {[kind |-> "raised", result |-> {}]}]
    /\ UNCHANGED <<METRICS_ENABLED, pc, route_label, method, response, code,
                   delivered, REQUESTS, LATENCY, loop, nObs, nInc, obsKeys,
                   incKeys, exc, served>>

\* The transport cancels the task suspended in `await call_next`:
\* CancelledError, a BaseException, is raised at line 162, once the router
\* has stored the route in the scope.
Cancel(r) ==
    /\ pc[r] = "DISPATCHED"
    /\ pending[r] = {}
    /\ request' = [request EXCEPT ![r] = {Routed(Rq(r))}]
    /\ pending' = [pending EXCEPT ![r] = {[kind |-> "cancelled", result |-> {}]}]
    /\ UNCHANGED <<METRICS_ENABLED, pc, route_label, method, response,
                   code, delivered, REQUESTS, LATENCY, loop, nObs, nInc,
                   obsKeys, incKeys, exc, served>>

Pending(r) == CHOOSE x \in pending[r] : TRUE

\* ResumeReturn, had line 163 bound code to 200 instead of the status of
\* the response that call_next returned.
ResumeReturnAssumes200(r) ==
    /\ pc[r] = "DISPATCHED"
    /\ pending[r] # {}
    /\ Pending(r).kind = "returned"
    /\ loop = 0
    /\ loop' = r
    /\ response' = [response EXCEPT ![r] = Pending(r).result]
    /\ code' = [code EXCEPT ![r] = {200}]
    /\ pc' = [pc EXCEPT ![r] = "SUCCEEDED"]
    /\ UNCHANGED <<METRICS_ENABLED, request, route_label, method, pending,
                   delivered, REQUESTS, LATENCY, nObs, nInc, obsKeys,
                   incKeys, exc, served>>

\* Lines 162-164: call_next returned; response and code are bound and the
\* return enters the finally block.
ResumeReturn(r) ==
    /\ pc[r] = "DISPATCHED"
    /\ pending[r] # {}
    /\ Pending(r).kind = "returned"
    /\ loop = 0
    /\ loop' = r
    /\ response' = [response EXCEPT ![r] = Pending(r).result]
    /\ code' = [code EXCEPT ![r] =
           {(CHOOSE x \in Pending(r).result : TRUE).status}]
    /\ pc' = [pc EXCEPT ![r] = "SUCCEEDED"]
    /\ UNCHANGED <<METRICS_ENABLED, request, route_label, method, pending,
                   delivered, REQUESTS, LATENCY, nObs, nInc, obsKeys,
                   incKeys, exc, served>>

\* ResumeRaise, had line 171 put the text of the exception in the body.
ResumeRaiseLeaking(r) ==
    /\ pc[r] = "DISPATCHED"
    /\ pending[r] # {}
    /\ Pending(r).kind = "raised"
    /\ loop = 0
    /\ loop' = r
    /\ code' = [code EXCEPT ![r] = {HTTP_500_INTERNAL_SERVER_ERROR}]
    /\ response' = [response EXCEPT ![r] =
           {JSONResponse({<<"detail", "RuntimeError: boom">>},
                         HTTP_500_INTERNAL_SERVER_ERROR)}]
    /\ pc' = [pc EXCEPT ![r] = "FAILED"]
    /\ UNCHANGED <<METRICS_ENABLED, request, route_label, method, pending,
                   delivered, REQUESTS, LATENCY, nObs, nInc, obsKeys,
                   incKeys, exc, served>>

\* Lines 166-172: except Exception binds code to 500 and returns the fixed
\* JSON body.
ResumeRaise(r) ==
    /\ pc[r] = "DISPATCHED"
    /\ pending[r] # {}
    /\ Pending(r).kind = "raised"
    /\ loop = 0
    /\ loop' = r
    /\ code' = [code EXCEPT ![r] = {HTTP_500_INTERNAL_SERVER_ERROR}]
    /\ response' = [response EXCEPT ![r] =
           {JSONResponse({<<"detail", "Internal Server Error">>},
                         HTTP_500_INTERNAL_SERVER_ERROR)}]
    /\ pc' = [pc EXCEPT ![r] = "FAILED"]
    /\ UNCHANGED <<METRICS_ENABLED, request, route_label, method, pending,
                   delivered, REQUESTS, LATENCY, nObs, nInc, obsKeys,
                   incKeys, exc, served>>

\* CancelledError is no Exception: the except clause is skipped and the
\* finally block is entered with response and code unbound.
ResumeCancel(r) ==
    /\ pc[r] = "DISPATCHED"
    /\ pending[r] # {}
    /\ Pending(r).kind = "cancelled"
    /\ loop = 0
    /\ loop' = r
    /\ exc' = [exc EXCEPT ![r] = {"CancelledError"}]
    /\ pc' = [pc EXCEPT ![r] = "CANCELLED"]
    /\ UNCHANGED <<METRICS_ENABLED, request, route_label, method, response,
                   code, pending, delivered, REQUESTS, LATENCY, nObs, nInc,
                   obsKeys, incKeys, served>>

Label(r) == CHOOSE x \in route_label[r] : TRUE
Method(r) == CHOOSE x \in method[r] : TRUE

\* Line 178: LATENCY.labels(route_label, method).observe(duration)
Observe(r) ==
    /\ pc[r] \in {"SUCCEEDED", "FAILED", "CANCELLED"}
    /\ loop = r
    /\ LATENCY' = observe(LATENCY, <<Label(r), Method(r)>>)
    /\ nObs' = [nObs EXCEPT ![r] =
           @ + SeriesTotal(LATENCY') - SeriesTotal(LATENCY)]
    /\ obsKeys' = [obsKeys EXCEPT ![r] = @ \cup Changed(LATENCY, LATENCY')]
    /\ pc' = [pc EXCEPT ![r] = "OBSERVED"]
    /\ UNCHANGED <<METRICS_ENABLED, request, route_label, method, response,
                   code, pending, delivered, REQUESTS, loop, nInc, incKeys,
                   exc, served>>

\* Inc, had the middleware left requests for /metrics out of the counter.
IncSkipsScrapes(r) ==
    /\ pc[r] = "OBSERVED"
    /\ loop = r
    /\ REQUESTS' =
           IF code[r] = {} \/ Label(r) = <<"metrics">> THEN REQUESTS
           ELSE inc(REQUESTS, <<Label(r), Method(r),
                                str(CHOOSE c \in code[r] : TRUE)>>)
    /\ nInc' = [nInc EXCEPT ![r] =
           @ + SeriesTotal(REQUESTS') - SeriesTotal(REQUESTS)]
    /\ incKeys' = [incKeys EXCEPT ![r] = @ \cup Changed(REQUESTS, REQUESTS')]
    /\ pc' = [pc EXCEPT ![r] = "RECORDED"]
    /\ UNCHANGED <<METRICS_ENABLED, request, route_label, method, response,
                   code, pending, delivered, LATENCY, loop, nObs, obsKeys,
                   exc, served>>

\* Inc, had line 179 stood in the try body after line 163 instead of the
\* finally block: a request whose handler raised is not counted.
IncSuccessOnly(r) ==
    /\ pc[r] = "OBSERVED"
    /\ loop = r
    /\ REQUESTS' =
           IF code[r] = {} \/ Pending(r).kind # "returned" THEN REQUESTS
           ELSE inc(REQUESTS, <<Label(r), Method(r),
                                str(CHOOSE c \in code[r] : TRUE)>>)
    /\ nInc' = [nInc EXCEPT ![r] =
           @ + SeriesTotal(REQUESTS') - SeriesTotal(REQUESTS)]
    /\ incKeys' = [incKeys EXCEPT ![r] = @ \cup Changed(REQUESTS, REQUESTS')]
    /\ pc' = [pc EXCEPT ![r] = "RECORDED"]
    /\ UNCHANGED <<METRICS_ENABLED, request, route_label, method, response,
                   code, pending, delivered, LATENCY, loop, nObs, obsKeys,
                   exc, served>>

\* Line 179: REQUESTS.labels(route_label, method, str(code)).inc().  With
\* code unbound, evaluating str(code) raises UnboundLocalError before
\* labels() is called, and lines 180-182 swallow it.
Inc(r) ==
    /\ pc[r] = "OBSERVED"
    /\ loop = r
    /\ REQUESTS' =
           IF code[r] = {} THEN REQUESTS
           ELSE inc(REQUESTS, <<Label(r), Method(r),
                                str(CHOOSE c \in code[r] : TRUE)>>)
    /\ nInc' = [nInc EXCEPT ![r] =
           @ + SeriesTotal(REQUESTS') - SeriesTotal(REQUESTS)]
    /\ incKeys' = [incKeys EXCEPT ![r] = @ \cup Changed(REQUESTS, REQUESTS')]
    /\ pc' = [pc EXCEPT ![r] = "RECORDED"]
    /\ UNCHANGED <<METRICS_ENABLED, request, route_label, method, response,
                   code, pending, delivered, LATENCY, loop, nObs, obsKeys,
                   exc, served>>

\* The pending return (or the propagating exception) leaves the middleware.
Return(r) ==
    /\ pc[r] = "RECORDED"
    /\ loop = r
    /\ loop' = 0
    /\ delivered' = [delivered EXCEPT ![r] =
           IF exc[r] # {}
           THEN {[kind |-> "exception", response |-> {}]}
           ELSE {[kind |-> "response", response |-> response[r]]}]
    /\ pc' = [pc EXCEPT ![r] = "DONE"]
    /\ UNCHANGED <<METRICS_ENABLED, request, route_label, method, response,
                   code, pending, REQUESTS, LATENCY, nObs, nInc, obsKeys,
                   incKeys, exc, served>>

\* ObserveFault without the except clause of lines 180-182: the exception
\* replaces the pending return.
ObserveFaultPropagating(r) ==
    /\ pc[r] \in {"SUCCEEDED", "FAILED", "CANCELLED"}
    /\ loop = r
    /\ exc' = [exc EXCEPT ![r] = {"Exception"}]
    /\ pc' = [pc EXCEPT ![r] = "RECORDED"]
    /\ UNCHANGED <<METRICS_ENABLED, request, route_label, method, response,
                   code, pending, delivered, REQUESTS, LATENCY, loop, nObs,
                   nInc, obsKeys, incKeys, served>>

\* Line 178 raises inside the library: lines 180-182 swallow the exception
\* and line 179 is skipped.
ObserveFault(r) ==
    /\ pc[r] \in {"SUCCEEDED", "FAILED", "CANCELLED"}
    /\ loop = r
    /\ pc' = [pc EXCEPT ![r] = "RECORDED"]
    /\ UNCHANGED <<METRICS_ENABLED, request, route_label, method, response,
                   code, pending, delivered, REQUESTS, LATENCY, loop, nObs,
                   nInc, obsKeys, incKeys, exc, served>>

\* Line 179 raises inside the library: lines 180-182 swallow the exception.
IncFault(r) ==
    /\ pc[r] = "OBSERVED"
    /\ loop = r
    /\ pc' = [pc EXCEPT ![r] = "RECORDED"]
    /\ UNCHANGED <<METRICS_ENABLED, request, route_label, method, response,
                   code, pending, delivered, REQUESTS, LATENCY, loop, nObs,
                   nInc, obsKeys, incKeys, exc, served>>

\* The requests of the runs in which the metric calls may fail.
StartFault(r) ==
    /\ IF r = 1 THEN TRUE ELSE pc[r - 1] # "NEW"
    /\ \E input \in FaultInputs : Receive(r, input)

\* A client that sends GET requests one after another on one connection.
StartSeq ==
    \E input \in SeqInputs : Receive(1, input)

\* The connection is reused for the next request once the previous one is
\* answered; the middleware's locals are gone, the registry stays.
NextRequest ==
    /\ pc[1] = "DONE"
    /\ SeriesTotal(served) + 1 < MaxSeqRequests
    /\ served' = IF Rq(1).path \in DOMAIN served
                  THEN [served EXCEPT ![Rq(1).path] = @ + 1]
                  ELSE served @@ (Rq(1).path :> 1)
    /\ pc' = [pc EXCEPT ![1] = "NEW"]
    /\ request' = [request EXCEPT ![1] = {}]
    /\ route_label' = [route_label EXCEPT ![1] = {}]
    /\ method' = [method EXCEPT ![1] = {}]
    /\ response' = [response EXCEPT ![1] = {}]
    /\ code' = [code EXCEPT ![1] = {}]
    /\ pending' = [pending EXCEPT ![1] = {}]
    /\ delivered' = [delivered EXCEPT ![1] = {}]
    /\ nObs' = [nObs EXCEPT ![1] = 0]
    /\ nInc' = [nInc EXCEPT ![1] = 0]
    /\ obsKeys' = [obsKeys EXCEPT ![1] = {}]
    /\ incKeys' = [incKeys EXCEPT ![1] = {}]
    /\ exc' = [exc EXCEPT ![1] = {}]
    /\ UNCHANGED <<METRICS_ENABLED, REQUESTS, LATENCY, loop>>

\* The steps of a request after its arrival.
Step(r) ==
    \/ Dispatch(r)
    \/ HandlerReturn(r)
    \/ HandlerRaise(r)
    \/ Cancel(r)
    \/ ResumeReturn(r)
    \/ ResumeRaise(r)
    \/ ResumeCancel(r)
    \/ Observe(r)
    \/ Inc(r)
    \/ Return(r)

Next == \E r \in Reqs : Start(r) \/ Step(r)

Spec == Init /\ [][Next]_vars

SpecDisabled == InitDisabled /\ [][Next]_vars

NextFault ==
    \E r \in Reqs :
        \/ StartFault(r)
        \/ Step(r)
        \/ ObserveFault(r)
        \/ IncFault(r)

SpecFault == Init /\ [][NextFault]_vars

NextSeq ==
    \/ StartSeq
    \/ Dispatch(1)
    \/ HandlerReturn(1)
    \/ ResumeReturn(1)
    \/ Observe(1)
    \/ Inc(1)
    \/ Return(1)
    \/ NextRequest

SpecSeq == InitAny /\ [][NextSeq]_vars

----------------------------------------------------------------------------
\* Properties

\* How the routed application ended for request r.
Kind(r) == IF pending[r] = {} THEN "none" ELSE Pending(r).kind

InternalServerError ==
    JSONResponse({<<"detail", "Internal Server Error">>}, 500)

\* C1: a request whose handler returned or raised never adds more than one
\* observation to LATENCY nor more than one increment to REQUESTS, and once
\* it has left the middleware it has added exactly one of each.
ExactlyOnceRecorded ==
    \A r \in Reqs :
        Kind(r) \in {"returned", "raised"} =>
            /\ nObs[r] <= 1
            /\ nInc[r] <= 1
            /\ pc[r] = "DONE" => nObs[r] = 1 /\ nInc[r] = 1

\* A request whose handler returned and one whose handler raised have both
\* left the middleware.
ExactlyOnceRecordedWitness ==
    \E r, q \in Reqs :
        /\ pc[r] = "DONE" /\ Kind(r) = "returned"
        /\ pc[q] = "DONE" /\ Kind(q) = "raised"

\* C2: a request cancelled while the middleware awaited call_next has, once
\* it has left the middleware, one observation in LATENCY and one increment
\* in REQUESTS.
CancelledRecordedOnce ==
    \A r \in Reqs :
        pc[r] = "DONE" /\ Kind(r) = "cancelled" =>
            nObs[r] = 1 /\ nInc[r] = 1

\* C3: when the handler raised, the caller gets status 500 with the fixed
\* body {"detail": "Internal Server Error"} and the request added exactly
\* one increment, to the series of its route label and method with code
\* "500".
HandlerFailureIs500 ==
    \A r \in Reqs :
        pc[r] = "DONE" /\ Kind(r) = "raised" =>
            /\ delivered[r] = {[kind |-> "response",
                                response |-> {InternalServerError}]}
            /\ nInc[r] = 1
            /\ incKeys[r] = {<<Label(r), Method(r), "500">>}

\* A POST /echo whose handler raised has been answered.
HandlerFailureIs500Witness ==
    \E r \in Reqs :
        /\ pc[r] = "DONE" /\ Kind(r) = "raised"
        /\ Rq(r).path = <<"echo">> /\ Rq(r).method = "POST"
        /\ REQUESTS[<<(<<"echo">>), "POST", "500">>] = 1

CounterValue(t) == IF t \in DOMAIN REQUESTS THEN REQUESTS[t] ELSE 0

\* The requests that have been answered with a response.
Answered == { r \in Reqs : pc[r] = "DONE" /\ exc[r] = {} }

AnsweredResponse(r) ==
    CHOOSE x \in (CHOOSE d \in delivered[r] : TRUE).response : TRUE

\* The (route, method, status code) of an answered request.
Triple(r) == <<Rq(r).path, Rq(r).method, str(AnsweredResponse(r).status)>>

AllComplete == \A r \in Reqs : pc[r] \in {"NEW", "DONE"}

\* C4: once every request that arrived has left the middleware, each
\* counter series equals the number of requests answered with its (route,
\* method, status code), whatever the interleaving was.
NoIncrementLost ==
    AllComplete =>
        \A t \in DOMAIN REQUESTS \cup { Triple(r) : r \in Answered } :
            CounterValue(t) = Cardinality({ r \in Answered : Triple(r) = t })

\* Two or more requests with the same triple have all completed and their
\* series equals their number.
NoIncrementLostWitness ==
    /\ AllComplete
    /\ \E r, q \in Answered :
           /\ r # q
           /\ Triple(r) = Triple(q)
           /\ CounterValue(Triple(r)) >= 2
           /\ CounterValue(Triple(r)) =
                  Cardinality({ x \in Answered : Triple(x) = Triple(r) })

\* C5: when a metric call fails, the caller still gets the response the
\* routed application returned, or the fixed 500 response when it raised,
\* and no exception leaves the middleware.
MetricsFaultInvisible ==
    \A r \in Reqs :
        pc[r] = "DONE" =>
            /\ Kind(r) = "returned" =>
                   delivered[r] = {[kind |-> "response",
                                    response |-> Pending(r).result]}
            /\ Kind(r) = "raised" =>
                   delivered[r] = {[kind |-> "response",
                                    response |-> {InternalServerError}]}

\* One request was answered although observe failed for it, another
\* although inc failed for it.
MetricsFaultInvisibleWitness ==
    \E r, q \in Reqs :
        /\ pc[r] = "DONE" /\ Kind(r) = "returned" /\ nObs[r] = 0
        /\ pc[q] = "DONE" /\ Kind(q) = "raised" /\ nObs[q] = 1 /\ nInc[q] = 0

\* C6: a request the router matched to a declared route is recorded, in
\* both metric families, under that route's path template; a POST /echo is
\* recorded under /echo whatever its message.
MatchedLabelIsTemplate ==
    \A r \in Reqs :
        pc[r] \in {"OBSERVED", "RECORDED", "DONE"} /\ Rq(r).route # {} =>
            /\ obsKeys[r] # {}
            /\ \A k \in obsKeys[r] \cup incKeys[r] :
                   k[1] = (CHOOSE x \in Rq(r).route : TRUE).path
            /\ Rq(r).path = <<"echo">> /\ Rq(r).method = "POST" =>
                   \A k \in obsKeys[r] \cup incKeys[r] : k[1] = <<"echo">>

\* A POST /echo whose message looks like a path was recorded under /echo.
MatchedLabelIsTemplateWitness ==
    \E r \in Reqs :
        /\ pc[r] = "DONE"
        /\ Rq(r).path = <<"echo">> /\ Rq(r).method = "POST"
        /\ Rq(r).body.message = "/metrics"
        /\ incKeys[r] = {<<(<<"echo">>), "POST", "200">>}
        /\ obsKeys[r] = {<<(<<"echo">>), "POST">>}

\* C7: for a request whose path matches no declared route,
\* route_label_from_request yields a label, the raw path, and the request
\* is recorded under it.
UnmatchedLabelIsRawPath ==
    \A r \in Reqs :
        request[r] # {} /\ MatchedRoute(Rq(r).path) = {} =>
            /\ route_label[r] = {Rq(r).path}
            /\ \A k \in obsKeys[r] \cup incKeys[r] : k[1] = Rq(r).path

\* GET /nonexistent was answered 404 and recorded under /nonexistent.
UnmatchedLabelIsRawPathWitness ==
    \E r \in Reqs :
        /\ pc[r] = "DONE"
        /\ Rq(r).path = <<"nonexistent">>
        /\ incKeys[r] = {<<(<<"nonexistent">>), "GET", "404">>}
        /\ obsKeys[r] = {<<(<<"nonexistent">>), "GET">>}

\* The route label values present in the series of the registry.
RouteLabels ==
    { k[1] : k \in DOMAIN REQUESTS } \cup { k[1] : k \in DOMAIN LATENCY }

\* C8: the number of distinct route labels in the registry never exceeds the
\* number of declared routes plus one.
RouteLabelsBounded ==
    Cardinality(RouteLabels) <= Cardinality(DeclaredTemplates) + 1

\* The number of requests recorded under a counter triple, and the number
\* of requests that have observed their latency under a histogram pair.
RecordedCount(t) ==
    Cardinality({ q \in Reqs :
        /\ pc[q] \in {"RECORDED", "DONE"}
        /\ code[q] # {}
        /\ <<Rq(q).path, Rq(q).method, str(CHOOSE c \in code[q] : TRUE)>> = t })

ObservedCount(p) ==
    Cardinality({ q \in Reqs :
        /\ pc[q] \in {"OBSERVED", "RECORDED", "DONE"}
        /\ <<Rq(q).path, Rq(q).method>> = p })

\* The step in which the /metrics handler of request r returns.
ScrapeReturns(r) ==
    /\ request[r] # {}
    /\ Rq(r).path = <<"metrics">> /\ Rq(r).method = "GET"
    /\ pending[r] = {} /\ pending'[r] # {}
    /\ (CHOOSE x \in pending'[r] : TRUE).kind = "returned"

DisabledOnlyHidesMetrics ==
    \A r \in Answered :
        Kind(r) = "returned" =>
            /\ ~METRICS_ENABLED /\ Rq(r).path = <<"metrics">>
                  /\ Rq(r).method = "GET" =>
                   AnsweredResponse(r) =
                       JSONResponse({<<"detail", "metrics disabled">>}, 404)
            /\ Rq(r).path \in {<<"live">>, <<"ready">>, <<"health">>, <<"echo">>} =>
                   AnsweredResponse(r) = Handle(Rq(r), TRUE, REQUESTS, LATENCY)

\* With metrics disabled, a scrape was answered 404 and a POST /echo 200.
DisabledOnlyHidesMetricsWitness ==
    /\ ~METRICS_ENABLED
    /\ \E r, q \in Answered :
           /\ Rq(r).path = <<"metrics">> /\ AnsweredResponse(r).status = 404
           /\ Rq(q).path = <<"echo">>
           /\ AnsweredResponse(q) = JSONResponse({<<"echo", "hi">>}, 200)

\* The step in which the routed application answers the GET /metrics of
\* request r, with metrics enabled or disabled.
ScrapeHandled(r) ==
    /\ request[r] # {}
    /\ Rq(r).path = <<"metrics">> /\ Rq(r).method = "GET"
    /\ pending[r] = {} /\ pending'[r] # {}
    /\ (CHOOSE x \in pending'[r] : TRUE).kind = "returned"

\* C11: the step in which the /metrics handler runs and returns leaves
\* every series of REQUESTS and of LATENCY as it was, with metrics enabled
\* and with metrics disabled.
ScrapeIsPureRead ==
    [][\A r \in Reqs :
          ScrapeHandled(r) => REQUESTS' = REQUESTS /\ LATENCY' = LATENCY]_vars

\* The /metrics handler has returned the exposition of a registry that
\* holds a series with three increments, and the series still holds them.
ScrapeIsPureReadWitness ==
    /\ METRICS_ENABLED
    /\ pc[1] = "DISPATCHED" /\ pending[1] # {}
    /\ Rq(1).path = <<"metrics">>
    /\ \E s \in (CHOOSE x \in Pending(1).result : TRUE).counters :
           s[2] = 3 /\ s[1] \in DOMAIN REQUESTS /\ REQUESTS[s[1]] = 3

\* after is before with 1 added to the series key, created if need be, and
\* every other series as it was.
OnlyRaised(before, after, key) ==
    /\ DOMAIN after = DOMAIN before \cup {key}
    /\ after[key] = (IF key \in DOMAIN before THEN before[key] ELSE 0) + 1
    /\ \A k \in DOMAIN before \ {key} : after[k] = before[k]

\* C12: a request that ends with outcome (route, method, code) adds 1 to
\* the histogram series (route, method) at its step of line 178 and 1 to the
\* counter series (route, method, code) at its step of line 179; these
\* steps change no other series and no other step changes any series.
\* POST /echo {"message": "hi"} is answered 200 {"echo": "hi"} and has
\* changed the series (/echo, POST) and (/echo, POST, 200) only.
ObserveStep(r) == pc[r] # "OBSERVED" /\ pc'[r] = "OBSERVED"

IncStep(r) == pc[r] = "OBSERVED" /\ pc'[r] = "RECORDED" /\ code[r] # {}

EchoHiAnswered(r) ==
    /\ pc[r] = "DONE" /\ exc[r] = {} /\ Kind(r) = "returned"
    /\ Rq(r).method = "POST" /\ Rq(r).path = <<"echo">>
    /\ Rq(r).body.valid /\ Rq(r).body.message = "hi"

OutcomeRaisesOnlyItsSeries ==
    [][/\ \A r \in Reqs :
              (ObserveStep(r) =>
                   (/\ OnlyRaised(LATENCY, LATENCY',
                                  <<Rq(r).path, Rq(r).method>>)
                    /\ REQUESTS' = REQUESTS))
       /\ \A r \in Reqs :
              (IncStep(r) =>
                   (/\ OnlyRaised(REQUESTS, REQUESTS',
                                  <<Rq(r).path, Rq(r).method,
                                    str(CHOOSE c \in code[r] : TRUE)>>)
                    /\ LATENCY' = LATENCY))
       /\ \A r \in Reqs :
              (EchoHiAnswered(r)' =>
                   (/\ delivered'[r] =
                           {[kind |-> "response",
                             response |->
                                 {JSONResponse({<<"echo", "hi">>}, 200)}]}
                    /\ incKeys'[r] = {<<(<<"echo">>), "POST", "200">>}
                    /\ obsKeys'[r] = {<<(<<"echo">>), "POST">>}))
       /\ ((\A r \in Reqs : ~ObserveStep(r) /\ ~IncStep(r))
              => (REQUESTS' = REQUESTS /\ LATENCY' = LATENCY))]_vars

\* Two POST /echo {"message": "hi"} were answered 200 and the series
\* (/echo, POST, 200) and (/echo, POST) stand at 2 with no other series.
OutcomeRaisesOnlyItsSeriesWitness ==
    /\ \A r \in Reqs :
           /\ r \in Answered
           /\ Rq(r).path = <<"echo">> /\ Rq(r).method = "POST"
           /\ Rq(r).body.valid /\ Rq(r).body.message = "hi"
           /\ Kind(r) = "returned"
    /\ DOMAIN REQUESTS = {<<(<<"echo">>), "POST", "200">>}
    /\ REQUESTS[<<(<<"echo">>), "POST", "200">>] = Cardinality(Reqs)
    /\ DOMAIN LATENCY = {<<(<<"echo">>), "POST">>}
    /\ LATENCY[<<(<<"echo">>), "POST">>] = Cardinality(Reqs)

\* C13: for every request that has been answered, the one counter series
\* it incremented carries as code label the status of the response that
\* was delivered to the caller: the status the handler returned (422 for a
\* malformed /echo body, 404 for an unmatched path) and 500 when the
\* handler raised.
CodeLabelIsReturnedStatus ==
    \A r \in Answered :
        /\ incKeys[r] # {}
        /\ \A k \in incKeys[r] : k[3] = str(AnsweredResponse(r).status)
        /\ (Kind(r) = "returned" =>
               AnsweredResponse(r) = CHOOSE x \in Pending(r).result : TRUE)
        /\ (Kind(r) = "raised" => AnsweredResponse(r).status = 500)

\* A POST /echo with a malformed body was answered 422 and recorded under
\* "422", and a request whose handler raised was recorded under "500".
CodeLabelIsReturnedStatusWitness ==
    /\ \E r \in Answered :
           /\ Rq(r).method = "POST" /\ ~Rq(r).body.valid
           /\ AnsweredResponse(r).status = 422
           /\ incKeys[r] = {<<(<<"echo">>), "POST", "422">>}
    /\ \E r \in Answered :
           /\ Kind(r) = "raised"
           /\ \E k \in incKeys[r] : k[3] = "500"

\* The state of the per-request state machine that request r is in. The
\* outcome state lasts from the resumption of line 162 until both metric
\* calls of the finally block have been made; an exit of line 162 that is
\* not a returned response counts as FAILED.
Phase(r) ==
    CASE pc[r] \in {"NEW", "START", "DISPATCHED", "RECORDED", "DONE"} -> pc[r]
      [] OTHER -> IF Kind(r) = "returned" THEN "SUCCEEDED" ELSE "FAILED"

PhaseOrder ==
    { <<"NEW", "START">>, <<"START", "DISPATCHED">>,
      <<"DISPATCHED", "SUCCEEDED">>, <<"DISPATCHED", "FAILED">>,
      <<"SUCCEEDED", "RECORDED">>, <<"FAILED", "RECORDED">>,
      <<"RECORDED", "DONE">> }

\* C14: every request goes START, DISPATCHED, SUCCEEDED or FAILED, RECORDED,
\* DONE in this order, no state skipped or revisited; on every exit path
\* from dispatch it enters RECORDED with its latency observation and its
\* counter increment made, and it is handed back to the caller only from
\* RECORDED.
RecordedOnEveryExitPath ==
    [][\A r \in Reqs :
           /\ (Phase(r)' # Phase(r) => <<Phase(r), Phase(r)'>> \in PhaseOrder)
           /\ (pc[r] # "RECORDED" /\ pc'[r] = "RECORDED" =>
                  nObs'[r] = 1 /\ nInc'[r] = 1)
           /\ (delivered[r] = {} /\ delivered'[r] # {} =>
                  pc[r] = "RECORDED" /\ pc'[r] = "DONE")]_vars

\* The sum, over every status code, of the counter samples of a scrape body
\* for the (route, method) pair p.
SnapshotCounterSum(body, p) ==
    LET keys == { s[1] : s \in { x \in body.counters :
                                   x[1][1] = p[1] /\ x[1][2] = p[2] } }
    IN  SumOver([k \in keys |-> SampleValue(body.counters, k)], keys)

\* The scrape bodies that handlers have produced so far.
EarlierSnapshots ==
    { CHOOSE x \in Pending(q).result : TRUE :
        q \in { x \in Reqs : /\ request[x] # {} /\ pending[x] # {}
                              /\ Rq(x).path = <<"metrics">>
                              /\ Pending(x).kind = "returned" } }

\* C15: whenever the /metrics handler takes its snapshot, whatever the
\* other requests are doing, no request shows in one of its two series and
\* not in the other (for every (route, method) the histogram count of the
\* snapshot equals the sum of its counter samples over the status codes),
\* and no counter sample is lower than in a snapshot taken earlier.
SnapshotHasNoPartialOutcome ==
    [][\A r \in Reqs :
          (ScrapeReturns(r) /\ METRICS_ENABLED) =>
              LET body == CHOOSE x \in (CHOOSE y \in pending'[r] : TRUE).result : TRUE
                  pairs == { s[1] : s \in body.histograms } \cup
                           { <<s[1][1], s[1][2]>> : s \in body.counters }
              IN  /\ \A p \in pairs :
                         SampleValue(body.histograms, p) =
                             SnapshotCounterSum(body, p)
                  /\ \A old \in EarlierSnapshots :
                         \A s \in old.counters :
                             s[2] <= SampleValue(body.counters, s[1])]_vars

\* The second half of C15 alone: counter samples never go down from one
\* snapshot to a later one.
SnapshotCountersMonotonic ==
    [][\A r \in Reqs :
          (ScrapeReturns(r) /\ METRICS_ENABLED) =>
              LET body == CHOOSE x \in (CHOOSE y \in pending'[r] : TRUE).result : TRUE
              IN  \A old \in EarlierSnapshots :
                      \A s \in old.counters :
                          s[2] <= SampleValue(body.counters, s[1])]_vars

\* One step as the counter family sees it: no series is removed or
\* lowered, a series that appears is the triple of a request taking its
\* step of line 179 and starts at 1, and every series that exists has been
\* recorded by some request.
CounterStep ==
    /\ DOMAIN REQUESTS \subseteq DOMAIN REQUESTS'
    /\ \A k \in DOMAIN REQUESTS : REQUESTS[k] <= REQUESTS'[k]
    /\ \A k \in DOMAIN REQUESTS' \ DOMAIN REQUESTS :
           /\ REQUESTS'[k] = 1
           /\ \E r \in Reqs :
                  /\ IncStep(r)
                  /\ k = <<Rq(r).path, Rq(r).method,
                           str(CHOOSE c \in code[r] : TRUE)>>
    /\ \A k \in DOMAIN REQUESTS' : RecordedCount(k)' >= 1

\* C16: a counter series does not exist before the first request with its
\* (route, method, code) is recorded, it never decreases in any step, and
\* once it exists it is never reset or removed.
CountersLazyAndMonotonic == [][CounterStep]_vars

\* Two different series have been created, one after the other, and both
\* are still there with their value.
CountersLazyAndMonotonicWitness ==
    /\ AllComplete
    /\ Cardinality(DOMAIN REQUESTS) = 2
    /\ \A k \in DOMAIN REQUESTS : REQUESTS[k] = 1
    /\ \E r \in Answered : Rq(r).path = <<"nonexistent">>

\* The outcome of a request that has left the middleware: its route, its
\* method and the status code its exit from line 162 determines (none when
\* it was cancelled), read off the request and the result of call_next.
Outcome(r) ==
    <<Rq(r).path, Rq(r).method,
      CASE Kind(r) = "returned" ->
               {str((CHOOSE x \in Pending(r).result : TRUE).status)}
        [] Kind(r) = "raised" -> {str(HTTP_500_INTERNAL_SERVER_ERROR)}
        [] OTHER -> {}>>

Done == { r \in Reqs : pc[r] = "DONE" }

\* The multiset of the outcomes of the requests that are done.
OutcomeBag ==
    [o \in { Outcome(r) : r \in Done } |->
        Cardinality({ r \in Done : Outcome(r) = o })]

\* The counter values and histogram counts a multiset of outcomes stands
\* for.
CountersOf(bag) ==
    [t \in { <<o[1], o[2], CHOOSE c \in o[3] : TRUE>> :
                o \in { x \in DOMAIN bag : x[3] # {} } }
        |-> bag[<<t[1], t[2], {t[3]}>>]]

HistogramsOf(bag) ==
    [p \in { <<o[1], o[2]>> : o \in DOMAIN bag } |->
        SumOver(bag, { o \in DOMAIN bag : <<o[1], o[2]>> = p })]

\* C17: once all requests that arrived are done, the counter values and
\* the histogram counts are the ones their multiset of outcomes stands
\* for, whatever the order in which their recordings interleaved.
RegistryDependsOnOutcomesOnly ==
    AllComplete =>
        /\ REQUESTS = CountersOf(OutcomeBag)
        /\ LATENCY = HistogramsOf(OutcomeBag)

\* GET /metrics arrived first and GET /health second, the scrape's body
\* already shows the observation of /health (the second request was
\* recorded before the first one's handler ran), and both are done with
\* each series at 1.
RegistryDependsOnOutcomesOnlyWitness ==
    /\ Done = Reqs
    /\ Rq(1).path = <<"metrics">> /\ Kind(1) = "returned"
    /\ \E r \in Reqs \ {1} :
           /\ Rq(r).path = <<"health">> /\ Kind(r) = "returned"
           /\ SampleValue((CHOOSE x \in Pending(1).result : TRUE).histograms,
                          <<(<<"health">>), "GET">>) = 1
    /\ REQUESTS[<<(<<"metrics">>), "GET", "200">>] = 1
    /\ REQUESTS[<<(<<"health">>), "GET", "200">>] = 1
    /\ LATENCY[<<(<<"metrics">>), "GET">>] = 1
    /\ LATENCY[<<(<<"health">>), "GET">>] = 1

\* The sum, over every status code, of the counter series of the (route,
\* method) pair p.
CounterSum(p) ==
    SumOver(REQUESTS, { t \in DOMAIN REQUESTS : t[1] = p[1] /\ t[2] = p[2] })

\* C18: whenever no request is inside its recording step (between the
\* resumption of line 162 and the return from the finally block), for every
\* (route, method) the histogram count equals the sum of the counter series
\* over all status codes.
HistogramPairsWithCounters ==
    loop = 0 =>
        \A p \in DOMAIN LATENCY \cup { <<t[1], t[2]>> : t \in DOMAIN REQUESTS } :
            (IF p \in DOMAIN LATENCY THEN LATENCY[p] ELSE 0) = CounterSum(p)

\* The scrapes that came before the request now on the connection.
ScrapesBefore ==
    IF <<"metrics">> \in DOMAIN served THEN served[<<"metrics">>] ELSE 0

IsScrape(r) ==
    request[r] # {} /\ Rq(r).path = <<"metrics">> /\ Rq(r).method = "GET"

\* The scrapes the middleware has recorded: the earlier ones and the
\* current one once it is past line 179.
ScrapesRecorded ==
    ScrapesBefore +
        (IF IsScrape(1) /\ pc[1] \in {"RECORDED", "DONE"} THEN 1 ELSE 0)

\* C19: GET /metrics is itself recorded by the middleware. With metrics
\* enabled the series (/metrics, GET, 200) equals the number of scrapes
\* recorded so far (k once k scrapes have completed) and the body of the
\* k-th scrape reports k - 1 for it; with metrics disabled the scrapes are
\* counted in (/metrics, GET, 404) instead and the body is the 404 body.
ScrapeCountsItself ==
    /\ CounterValue(<<(<<"metrics">>), "GET",
                      IF METRICS_ENABLED THEN "200" ELSE "404">>)
           = ScrapesRecorded
    /\ CounterValue(<<(<<"metrics">>), "GET",
                      IF METRICS_ENABLED THEN "404" ELSE "200">>) = 0
    /\ (IsScrape(1) /\ pending[1] # {}) =>
           LET body == CHOOSE x \in Pending(1).result : TRUE
           IN  IF METRICS_ENABLED
               THEN /\ body.status = 200
                    /\ SampleValue(body.counters,
                                   <<(<<"metrics">>), "GET", "200">>)
                           = ScrapesBefore
               ELSE body = JSONResponse({<<"detail", "metrics disabled">>}, 404)

\* The third scrape in a row has completed with metrics enabled: the
\* counter stands at 3 and the body it returned reports 2.
ScrapeCountsItselfWitness ==
    /\ METRICS_ENABLED
    /\ IsScrape(1) /\ pc[1] = "DONE"
    /\ ScrapesBefore = 2
    /\ REQUESTS[<<(<<"metrics">>), "GET", "200">>] = 3
    /\ SampleValue(AnsweredResponse(1).counters,
                   <<(<<"metrics">>), "GET", "200">>) = 2

====
